---- MODULE Spec2Model ----
(***************************************************************************)
(* go-env: populating and validating a configuration record from an        *)
(* environment lookup.                                                     *)
(*                                                                         *)
(* Two generations of the engine live in the sources:                      *)
(*   - src/unnamed/part_000: AssertedEnvironment.Validate -> validate ->   *)
(*     getValue (env tag looked up with Tag.Lookup, `default` fallback);   *)
(*   - src/validate.go: Validate -> getValue (env tag read with Tag.Get,   *)
(*     no fallback).                                                       *)
(* Both are modelled; the parsers (asInt, asURL, asEnum, ...) are the same *)
(* text in both files.                                                     *)
(*                                                                         *)
(* A Go string is a sequence of one-character strings; a Go int is the     *)
(* record [k, n] denoting k * 2^63 + n, so that the 64-bit extremes are    *)
(* representable.                                                          *)
(***************************************************************************)
EXTENDS Integers, Sequences, FiniteSets, TLC

VARIABLES
    nanInt,     \* what int(math.NaN()) yields on the build under test
    env,        \* the map behind the lookup function
    target,     \* what the caller hands to Validate: its kind
    schema,     \* the record type of the target: a sequence of field declarations
    prior,      \* the target's contents when Validate was called
    rec,        \* the target's contents now
    impl,       \* which engine was entered: "none", "part_000", "validate.go"
    pc,         \* "idle", "loop", "done"
    i,          \* getValue's loop index (1-based)
    v,          \* getValue's scratch record, reflect.New(t).Elem()
    result,     \* what Validate returned
    lookups,    \* the keys ValueFromEnv was invoked with, in order
    raws,       \* the raw value handed to each parsed field's parser, in order
    first,      \* how the first call on this target ended, once a second began
    pfun,       \* parser harness: the parser applied ("none" before the call)
    ps,         \* parser harness: its input string
    pvals,      \* parser harness: its `enum` argument
    pout,       \* parser harness: its result [val, err]
    rfun,       \* render harness: the String method applied ("none" before)
    rval,       \* render harness: the value String is called on [typ, val]
    rout        \* render harness: the string returned, or Panic

engineVars ==
    <<target, schema, prior, rec, impl, pc, i, v, result, lookups, raws, first>>
parserVars == <<pfun, ps, pvals, pout>>
renderVars == <<rfun, rval, rout>>
vars == <<nanInt, env, target, schema, prior, rec, impl, pc, i, v, result,
          lookups, raws, first, pfun, ps, pvals, pout, rfun, rval, rout>>

----------------------------------------------------------------------------
(* Bounds *)

\* longest input string the parser harness enumerates exhaustively
MaxLen == 3
\* longest `enum` tag the parser harness enumerates exhaustively
MaxEnumLen == 3
\* most fields a record type declares
MaxFields == 2
\* largest magnitude of the integers the render harness enumerates
MaxAbsInt == 130
\* longest list the render harness enumerates
MaxListLen == 2

----------------------------------------------------------------------------
(* Strings *)

Letters == {"a", "b", "A"}
Digits == {"0", "1", "2", "3", "4", "5", "6", "7", "8", "9"}
Chars == {"a", "A", "1", "-", ":", "/", ","}
EnumChars == {"a", "A", ","}

StringsUpTo(alphabet, n) == UNION {[1..k -> alphabet] : k \in 0..n}

Empty == <<>>

\* strings.HasPrefix
HasPrefix(s, p) == Len(s) >= Len(p) /\ SubSeq(s, 1, Len(p)) = p

\* strings.Index for a one-character separator: 0 when absent
IndexOf(s, c) ==
    IF \E j \in 1..Len(s) : s[j] = c
    THEN CHOOSE j \in 1..Len(s) : s[j] = c /\ \A m \in 1..(j - 1) : s[m] # c
    ELSE 0

\* strings.LastIndex for a one-character separator: 0 when absent
LastIndexOf(s, c) ==
    IF \E j \in 1..Len(s) : s[j] = c
    THEN CHOOSE j \in 1..Len(s) : s[j] = c /\ \A m \in (j + 1)..Len(s) : s[m] # c
    ELSE 0

\* strings.Split(s, sep) for a one-character sep: n separators give n+1 segments
RECURSIVE Split(_, _)
Split(s, sep) ==
    LET j == IndexOf(s, sep)
    IN  IF j = 0 THEN <<s>>
        ELSE <<SubSeq(s, 1, j - 1)>> \o Split(SubSeq(s, j + 1, Len(s)), sep)

\* strings.ToLower on the model's alphabet
ToLowerChar(c) == IF c = "A" THEN "a" ELSE c
ToLower(s) == [j \in 1..Len(s) |-> ToLowerChar(s[j])]

----------------------------------------------------------------------------
(* Values and errors *)

\* the Go int k * 2^63 + n
Int64(k, n) == [k |-> k, n |-> n]
IntOf(n) == Int64(0, n)
MinInt64 == Int64(-1, 0)
MaxInt64 == Int64(1, -1)

\* Converting NaN to int is implementation-dependent in Go: amd64 yields the
\* "integer indefinite" value MinInt64, arm64 yields 0, riscv64 MaxInt64.
NaNOutcomes == {IntOf(0), MinInt64, MaxInt64}

IntVal(n) == [int |-> n]
StrVal(s) == [str |-> s]

Nil == [kind |-> "nil", arg |-> <<>>]
Err(kind, arg) == [kind |-> kind, arg |-> arg]
Res(val, err) == [val |-> val, err |-> err]

----------------------------------------------------------------------------
(* Parsers *)

DigitVal(c) ==
    CASE c = "0" -> 0 [] c = "1" -> 1 [] c = "2" -> 2 [] c = "3" -> 3
      [] c = "4" -> 4 [] c = "5" -> 5 [] c = "6" -> 6 [] c = "7" -> 7
      [] c = "8" -> 8 [] c = "9" -> 9

RECURSIVE DecimalValue(_)
DecimalValue(s) ==
    IF s = <<>> THEN 0
    ELSE 10 * DecimalValue(SubSeq(s, 1, Len(s) - 1)) + DigitVal(s[Len(s)])

\* strconv.Atoi: an optional sign, then at least one decimal digit, nothing else
\* (inputs here stay far below the 64-bit range, so ErrRange cannot arise)
Atoi(s) ==
    LET signed == Len(s) > 0 /\ s[1] \in {"+", "-"}
        digits == IF signed THEN SubSeq(s, 2, Len(s)) ELSE s
    IN  IF digits = <<>> \/ \E j \in 1..Len(digits) : digits[j] \notin Digits
        THEN Res(IntOf(0), Err("InvalidInteger", s))
        ELSE Res(IntOf(IF signed /\ s[1] = "-" THEN 0 - DecimalValue(digits)
                       ELSE DecimalValue(digits)), Nil)

asNotEmpty(s) ==
    IF s = Empty THEN Res(s, Err("UnexpectedEmptyValue", <<>>))
    ELSE Res(s, Nil)

asInt(s) ==
    IF s = Empty THEN Res(nanInt, Nil)
    ELSE LET r == Atoi(s)
         IN  IF r.err # Nil THEN Res(nanInt, r.err) ELSE Res(r.val, Nil)

\* mutant: the empty check is left out
asNotEmptyInt_Unchecked(s) == asInt(s)

asNotEmptyInt(s) ==
    LET e == asNotEmpty(s)
    IN  IF e.err # Nil THEN Res(nanInt, e.err) ELSE asInt(s)

\* net/url getScheme: [ok, scheme, rest]; a scheme is a letter followed by
\* letters, digits, "+", "-", "." and closed by ":"
getScheme(s) ==
    LET schemeChar(j) == s[j] \in Letters \/ (j > 1 /\ s[j] \in Digits \cup {"+", "-", "."})
        stops == {j \in 1..Len(s) : ~schemeChar(j)}
        stop == IF stops = {} THEN 0
                ELSE CHOOSE j \in stops : \A m \in stops : j <= m
    IN  IF stop = 0 \/ s[stop] # ":"
        THEN [ok |-> TRUE, scheme |-> Empty, rest |-> s]
        ELSE IF stop = 1
        THEN [ok |-> FALSE, scheme |-> Empty, rest |-> Empty]
        ELSE [ok |-> TRUE, scheme |-> SubSeq(s, 1, stop - 1),
              rest |-> SubSeq(s, stop + 1, Len(s))]

\* net/url validOptionalPort on the text from the host's last ":" on
validOptionalPort(port) ==
    port = Empty
    \/ (port[1] = ":" /\ \A j \in 2..Len(port) : port[j] \in Digits)

\* net/url parseHost without "[": the text after the last ":" must be a port
parseHostOk(host) ==
    LET j == LastIndexOf(host, ":")
    IN  j = 0 \/ validOptionalPort(SubSeq(host, j, Len(host)))

\* net/url Parse on strings without "#", "?", "%", "@", "[" or control bytes:
\* [ok, scheme, host, path, opaque]
urlParse(s) ==
    LET g == getScheme(s)
        bad == [ok |-> FALSE, scheme |-> Empty, host |-> Empty, path |-> Empty,
                opaque |-> Empty]
        scheme == ToLower(g.scheme)
        rest == g.rest
    IN  IF ~g.ok THEN bad
        ELSE IF ~HasPrefix(rest, <<"/">>) /\ scheme # Empty
        THEN [ok |-> TRUE, scheme |-> scheme, host |-> Empty, path |-> Empty,
              opaque |-> rest]
        ELSE IF ~HasPrefix(rest, <<"/">>) /\ IndexOf(Split(rest, "/")[1], ":") # 0
        THEN bad
        ELSE IF HasPrefix(rest, <<"/", "/">>)
                /\ (scheme # Empty \/ ~HasPrefix(rest, <<"/", "/", "/">>))
        THEN LET after == SubSeq(rest, 3, Len(rest))
                 j == IndexOf(after, "/")
                 authority == IF j = 0 THEN after ELSE SubSeq(after, 1, j - 1)
                 path == IF j = 0 THEN Empty ELSE SubSeq(after, j, Len(after))
             IN  IF ~parseHostOk(authority) THEN bad
                 ELSE [ok |-> TRUE, scheme |-> scheme, host |-> authority,
                       path |-> path, opaque |-> Empty]
        ELSE [ok |-> TRUE, scheme |-> scheme, host |-> Empty, path |-> rest,
              opaque |-> Empty]

\* net/url URL.String for a URL with a scheme and a host (no escaping is needed
\* on the model's alphabet)
urlString(u) ==
    u.scheme \o <<":", "/", "/">> \o u.host
        \o (IF u.path # Empty /\ u.path[1] # "/" THEN <<"/">> ELSE Empty) \o u.path

asURL(s) ==
    IF s = Empty THEN Res(Empty, Nil)
    ELSE LET u == urlParse(s)
         IN  IF ~u.ok THEN Res(Empty, Err("InvalidURL", s))
             ELSE IF u.scheme = Empty \/ u.host = Empty
             THEN Res(Empty, Err("PartialURLValue", s))
             ELSE Res(urlString(u), Nil)

asNotEmptyURL(s) ==
    LET e == asNotEmpty(s)
    IN  IF e.err # Nil THEN Res(Empty, e.err) ELSE asURL(s)

\* mutant: the comparison folds case, as strings.EqualFold would
contains_Fold(xs, x) == \E j \in 1..Len(xs) : ToLower(xs[j]) = ToLower(x)

contains(xs, x) == \E j \in 1..Len(xs) : xs[j] = x

asEnum(s, vals) ==
    IF s = Empty THEN Res(Empty, Nil)
    ELSE LET vs == Split(vals, ",")
         IN  IF ~contains(vs, s) THEN Res(Empty, Err("InvalidEnumValue", s))
             ELSE Res(s, Nil)

asNotEmptyEnum(s, vals) ==
    LET e == asNotEmpty(s)
    IN  IF e.err # Nil THEN Res(Empty, e.err) ELSE asEnum(s, vals)

\* a slice value: its elements, and whether it is the nil slice; []string and
\* []int are told apart by the field that holds the elements
SliceOf(xs) == [list |-> xs, isNil |-> FALSE]
NilSlice == [list |-> <<>>, isNil |-> TRUE]
IntSliceOf(xs) == [ints |-> xs, isNil |-> FALSE]
NilIntSlice == [ints |-> <<>>, isNil |-> TRUE]

\* the `separator` tag, a comma when the tag is absent or empty
SeparatorOrDefault(sep) == IF sep = Empty THEN "," ELSE sep[1]

\* mutant: empty segments are dropped, as strings.FieldsFunc would
Segments_DropEmpty(s, sep) ==
    SelectSeq(Split(s, SeparatorOrDefault(sep)), LAMBDA x : x # Empty)

\* the segments of a list value: the split on the separator
Segments(s, sep) == Split(s, SeparatorOrDefault(sep))

\* TextList: the empty list for the empty string, else every segment
asStringSlice(s, sep) ==
    IF s = Empty THEN Res(SliceOf(<<>>), Nil)
    ELSE Res(SliceOf(Segments(s, sep)), Nil)

\* the integers of the segments up to the first segment that is empty or no
\* integer, and that segment's error
RECURSIVE ParseSegments(_)
ParseSegments(segs) ==
    IF segs = <<>> THEN Res(<<>>, Nil)
    ELSE LET r == asNotEmptyInt(Head(segs))
             rest == ParseSegments(Tail(segs))
         IN  IF r.err # Nil THEN Res(<<>>, r.err)
             ELSE IF rest.err # Nil THEN rest
             ELSE Res(<<r.val>> \o rest.val, Nil)

\* IntegerList: the empty list for the empty string, else every segment as a
\* non-empty integer; the zero (nil) list and the error of the first bad segment
asIntSlice(s, sep) ==
    IF s = Empty THEN Res(IntSliceOf(<<>>), Nil)
    ELSE LET r == ParseSegments(Segments(s, sep))
         IN  IF r.err # Nil THEN Res(NilIntSlice, r.err)
             ELSE Res(IntSliceOf(r.val), Nil)

----------------------------------------------------------------------------
(* Record types, targets and the lookup function *)

KnownTypes == {"env.Int", "env.NonEmptyInt", "env.String", "env.NonEmptyString",
               "env.URL", "env.NonEmptyURL", "env.Enum", "env.NonEmptyEnum"}
EnumTypes == {"env.Enum", "env.NonEmptyEnum"}
IntTypes == {"env.Int", "env.NonEmptyInt"}
\* a wrapper type the engine has no case for
UnknownType == "env.StringSlice"

Keys == {"BEEP", "BRRT"}
\* the value of the `enum` tag of the enum fields
EnumTag == <<"a", ",", "b">>
\* the value of the `default` tag of the fields that declare one
DefaultTag == <<"1", "2">>
\* what the environment holds for a key ("" is an unset key)
Values == {Empty, <<"1", "2">>, <<"a">>, <<"a", ":", "/", "/", "a">>}

\* a struct field: its type, whether it is exported (settable), and its tags
Field(typ, exported, hasEnv, key, hasDefault) ==
    [typ |-> typ, exported |-> exported, hasEnv |-> hasEnv, env |-> key,
     hasDefault |-> hasDefault,
     default |-> IF hasDefault THEN DefaultTag ELSE Empty,
     enum |-> IF typ \in EnumTypes THEN EnumTag ELSE Empty]

Decls ==
    {Field(t, TRUE, TRUE, "BEEP", FALSE) : t \in KnownTypes \cup {UnknownType}}
    \cup {Field(t, TRUE, TRUE, "BRRT", TRUE) :
            t \in {"env.Int", "env.NonEmptyString", "env.NonEmptyEnum", "env.URL"}}
    \cup {Field("env.String", TRUE, FALSE, "", FALSE),
          Field("env.String", FALSE, TRUE, "BEEP", FALSE),
          Field("env.String", FALSE, FALSE, "", FALSE)}

Schemas == UNION {[1..n -> Decls] : n \in 1..MaxFields}

FieldName(j) == <<"F", ToString(j)>>

\* the zero value of a field, as reflect.New leaves it
Zero(f) ==
    IF f.typ \in IntTypes THEN IntVal(IntOf(0))
    ELSE IF f.typ \in KnownTypes THEN StrVal(Empty)
    ELSE [list |-> <<>>]

\* a value a caller may have stored in the field before the call
Preset(f) ==
    IF f.typ \in IntTypes THEN IntVal(IntOf(5))
    ELSE IF f.typ \in KnownTypes THEN StrVal(<<"z">>)
    ELSE [list |-> <<<<"z">>>>]

ZeroRecord(sch) == [j \in 1..Len(sch) |-> Zero(sch[j])]
PresetRecord(sch) == [j \in 1..Len(sch) |-> Preset(sch[j])]

\* what the caller passes as the target
TargetKinds == {"nil", "struct", "nil *struct", "*int", "*struct"}

Envs == [Keys -> Values]

\* the getter func(k string) string { return e[k] }: "" for a key not in the map
Lookup(k) == IF k \in DOMAIN env THEN env[k] ELSE Empty

NoResult == [kind |-> "none", arg |-> <<>>]
NoValue == [typ |-> "none", val |-> Nil]
NoRun == [result |-> NoResult, rec |-> <<>>, kept |-> FALSE]
Panic == [kind |-> "panic", arg |-> <<>>]

----------------------------------------------------------------------------
(* Rendering: the String methods of the wrapper types *)

\* the printable ASCII characters, code points 32 to 126 (the grave accent,
\* which has no string literal here, is named)
Ascii ==
  << " ", "!", "\"", "#", "$", "%", "&", "'", "(", ")", "*", "+",
    ",", "-", ".", "/", "0", "1", "2", "3", "4", "5", "6", "7",
    "8", "9", ":", ";", "<", "=", ">", "?", "@", "A", "B", "C",
    "D", "E", "F", "G", "H", "I", "J", "K", "L", "M", "N", "O",
    "P", "Q", "R", "S", "T", "U", "V", "W", "X", "Y", "Z", "[",
    "\\", "]", "^", "_", "U+96", "a", "b", "c", "d", "e", "f", "g",
    "h", "i", "j", "k", "l", "m", "n", "o", "p", "q", "r", "s",
    "t", "u", "v", "w", "x", "y", "z", "{", "|", "}", "~">>

\* string(v) of an integer v: the UTF-8 text of the code point v, U+FFFD when
\* v is no valid code point; characters outside printable ASCII are named
RuneString(n) ==
    IF n < 0 \/ n > 1114111 \/ n \in 55296..57343 THEN <<"U+FFFD">>
    ELSE IF n \in 32..126 THEN <<Ascii[n - 31]>>
    ELSE <<"U+" \o ToString(n)>>

DigitChars == <<"0", "1", "2", "3", "4", "5", "6", "7", "8", "9">>

RECURSIVE FormatDigits(_)
FormatDigits(n) ==
    IF n < 10 THEN <<DigitChars[n + 1]>>
    ELSE FormatDigits(n \div 10) \o <<DigitChars[(n % 10) + 1]>>

\* strconv.Itoa and fmt.Sprintf("%d"), of an int within the 32-bit range
Itoa(x) == IF x.n < 0 THEN <<"-">> \o FormatDigits(0 - x.n) ELSE FormatDigits(x.n)

\* strings.Join
RECURSIVE Join(_, _)
Join(xs, sep) ==
    IF xs = <<>> THEN Empty
    ELSE IF Len(xs) = 1 THEN xs[1]
    ELSE Join(SubSeq(xs, 1, Len(xs) - 1), sep) \o sep \o xs[Len(xs)]

\* the loop of IntSlice.String: out += "," + strconv.Itoa(s)
RECURSIVE CommaItoa(_)
CommaItoa(xs) ==
    IF xs = <<>> THEN Empty
    ELSE CommaItoa(SubSeq(xs, 1, Len(xs) - 1)) \o <<",">> \o Itoa(xs[Len(xs)])

\* out[1:], which panics when out is empty
Slice1(out) == IF out = Empty THEN Panic ELSE StrVal(Tail(out))

----------------------------------------------------------------------------
(* The engine *)

Init ==
    /\ nanInt \in NaNOutcomes
    /\ env \in Envs
    /\ target \in TargetKinds
    /\ schema \in (IF target = "*struct" THEN Schemas ELSE {<<>>})
    /\ prior \in (IF target = "*struct"
                  THEN {ZeroRecord(schema), PresetRecord(schema)}
                  ELSE IF target \in {"struct", "*int"}
                  THEN {<<IntVal(IntOf(5))>>}
                  ELSE {<<>>})
    /\ rec = prior
    /\ impl = "none"
    /\ pc = "idle"
    /\ i = 0
    /\ v = <<>>
    /\ result = NoResult
    /\ lookups = <<>>
    /\ raws = <<>>
    /\ first = NoRun
    /\ pfun = "none"
    /\ ps = Empty
    /\ pvals = Empty
    /\ pout = Res(Empty, Nil)
    /\ rfun = "none"
    /\ rval = NoValue
    /\ rout = NoResult

\* validate's checks on the target and getValue's check on its type, up to the
\* creation of the scratch record
Enter ==
    /\ pc = "idle"
    /\ IF target = "nil"
       THEN \* reflect.TypeOf(nil) is nil: reflectType.Kind() dereferences it
            /\ result' = Panic /\ pc' = "done" /\ UNCHANGED <<i, v>>
       ELSE IF target = "struct"
       THEN /\ result' = Err("ExpectedPointerValue", <<>>)
            /\ pc' = "done" /\ UNCHANGED <<i, v>>
       ELSE IF target = "nil *struct"
       THEN /\ result' = Err("UnexpectedNilPointer", <<"struct">>)
            /\ pc' = "done" /\ UNCHANGED <<i, v>>
       ELSE IF target # "*struct"
       THEN /\ result' = Err("ExpectedStructValue", <<"int">>)
            /\ pc' = "done" /\ UNCHANGED <<i, v>>
       ELSE /\ v' = ZeroRecord(schema)
            /\ i' = 1
            /\ pc' = "loop"
            /\ UNCHANGED result
    /\ UNCHANGED <<nanInt, env, target, schema, prior, rec, lookups, raws, first>>
    /\ UNCHANGED parserVars
    /\ UNCHANGED renderVars

\* AssertedEnvironment.Validate
validate == impl \in {"none", "part_000"} /\ impl' = "part_000" /\ Enter

\* the package-level Validate of validate.go
Validate == impl \in {"none", "validate.go"} /\ impl' = "validate.go" /\ Enter

\* mutant: the env tag is checked before the field's settability
FieldCheck_TagFirst(f, j) ==
    IF ~f.hasEnv THEN Err("UntaggedField", FieldName(j))
    ELSE IF ~f.exported THEN Err("UnsettableField", FieldName(j))
    ELSE Nil

\* the checks on a field that come before its lookup
FieldCheck(f, j) ==
    IF ~f.exported THEN Err("UnsettableField", FieldName(j))
    ELSE IF ~f.hasEnv THEN Err("UntaggedField", FieldName(j))
    ELSE Nil

\* mutant: a declared default overrides the environment
Candidate_DefaultFirst(f) ==
    IF f.hasDefault THEN f.default ELSE Lookup(f.env)

\* lookup, then the declared default when the lookup came back empty
Candidate(f) ==
    LET c == Lookup(f.env)
    IN  IF c = Empty /\ f.hasDefault THEN f.default ELSE c

\* mutant: a field of a type without a case is left at its zero value
UnknownTypeResult_Skip(f) == Res(Zero(f), Nil)

\* the switch's default case
UnknownTypeResult(f) == Res(Zero(f), Err("UnknownFieldType", <<f.typ>>))

\* the switch on the field's type
Dispatch(f, candidate) ==
    LET int(r) == Res(IntVal(r.val), r.err)
        str(r) == Res(StrVal(r.val), r.err)
    IN  CASE f.typ = "env.Int" -> int(asInt(candidate))
          [] f.typ = "env.NonEmptyInt" -> int(asNotEmptyInt(candidate))
          [] f.typ = "env.String" -> Res(StrVal(candidate), Nil)
          [] f.typ = "env.NonEmptyString" -> str(asNotEmpty(candidate))
          [] f.typ = "env.URL" -> str(asURL(candidate))
          [] f.typ = "env.NonEmptyURL" -> str(asNotEmptyURL(candidate))
          [] f.typ = "env.Enum" -> str(asEnum(candidate, f.enum))
          [] f.typ = "env.NonEmptyEnum" -> str(asNotEmptyEnum(candidate, f.enum))
          [] OTHER -> UnknownTypeResult(f)

\* mutant: the scratch record aliases the target (v := rval.Elem()), so a store
\* into a field of v is a store into the target
TargetAfterStore_Alias(val) == [rec EXCEPT ![i] = val]

\* the target after field i of the scratch record is set: v is a fresh value of
\* the record type, so the target keeps its contents
TargetAfterStore(val) == rec

\* mutant: a failing parser only leaves the switch; the loop goes on to the next
\* field and the error is lost
FieldStep_Continue(chk, key, candidate) ==
    LET f == schema[i]
        r == Dispatch(f, candidate)
    IN  /\ pc = "loop"
        /\ i <= Len(schema)
        /\ IF chk # Nil
           THEN /\ result' = chk
                /\ pc' = "done"
                /\ UNCHANGED <<i, v, rec, lookups, raws>>
           ELSE /\ lookups' = Append(lookups, key)
                /\ raws' = Append(raws, candidate)
                /\ v' = IF r.err # Nil THEN v ELSE [v EXCEPT ![i] = r.val]
                /\ rec' = rec
                /\ i' = i + 1
                /\ UNCHANGED <<result, pc>>
        /\ UNCHANGED <<nanInt, env, target, schema, prior, impl, first>>
        /\ UNCHANGED parserVars
        /\ UNCHANGED renderVars

\* one iteration of getValue's loop: the field either fails, which ends the call
\* with its error, or is stored in the scratch record
FieldStep(chk, key, candidate) ==
    LET f == schema[i]
        r == Dispatch(f, candidate)
    IN  /\ pc = "loop"
        /\ i <= Len(schema)
        /\ IF chk # Nil
           THEN /\ result' = chk
                /\ pc' = "done"
                /\ UNCHANGED <<i, v, rec, lookups, raws>>
           ELSE /\ lookups' = Append(lookups, key)
                /\ raws' = Append(raws, candidate)
                /\ IF r.err # Nil
                   THEN /\ result' = r.err
                        /\ pc' = "done"
                        /\ UNCHANGED <<i, v, rec>>
                   ELSE /\ v' = [v EXCEPT ![i] = r.val]
                        /\ rec' = TargetAfterStore(r.val)
                        /\ i' = i + 1
                        /\ UNCHANGED <<result, pc>>
        /\ UNCHANGED <<nanInt, env, target, schema, prior, impl, first>>
        /\ UNCHANGED parserVars
        /\ UNCHANGED renderVars

\* getValue of part_000
getValue ==
    /\ impl = "part_000"
    /\ pc = "loop" /\ i <= Len(schema)
    /\ LET f == schema[i]
       IN  FieldStep(FieldCheck(f, i), f.env, Candidate(f))

\* the checks getValue of validate.go makes before the lookup
FieldCheckV1(f, j) ==
    IF ~f.exported THEN Err("UnsettableField", FieldName(j)) ELSE Nil

\* f.Tag.Get: the tag's value, "" when the tag is absent
TagGet(f) == IF f.hasEnv THEN f.env ELSE ""

\* getValue of validate.go
getValueV1 ==
    /\ impl = "validate.go"
    /\ pc = "loop" /\ i <= Len(schema)
    /\ LET f == schema[i]
       IN  FieldStep(FieldCheckV1(f, i), TagGet(f), Lookup(TagGet(f)))

\* getValue returned the scratch record: validate stores it in the target
SetFinalValue ==
    /\ pc = "loop"
    /\ i > Len(schema)
    /\ rec' = v
    /\ result' = Nil
    /\ pc' = "done"
    /\ UNCHANGED <<nanInt, env, target, schema, prior, impl, i, v, lookups, raws,
                   first>>
    /\ UNCHANGED parserVars
    /\ UNCHANGED renderVars

\* the first call has returned and the caller, who owns the record, is about to
\* call the same Validate again with the same lookup: on the record as the
\* first call left it, or after resetting or pre-setting its fields
Revalidate ==
    /\ pc = "done"
    /\ result # Panic
    /\ first = NoRun
    /\ rec' \in (IF target = "*struct"
                 THEN {rec, ZeroRecord(schema), PresetRecord(schema)}
                 ELSE {rec})
    /\ first' = [result |-> result, rec |-> rec, kept |-> rec' = rec]
    /\ prior' = rec'
    /\ pc' = "idle"
    /\ i' = 0
    /\ v' = <<>>
    /\ result' = NoResult
    /\ lookups' = <<>>
    /\ raws' = <<>>
    /\ UNCHANGED <<nanInt, env, target, schema, impl>>
    /\ UNCHANGED parserVars
    /\ UNCHANGED renderVars

Next == validate \/ Validate \/ getValue \/ getValueV1 \/ SetFinalValue

Spec == Init /\ [][Next]_vars

\* one call, and a second one by the same caller
RerunNext == Next \/ Revalidate

RerunSpec == Init /\ [][RerunNext]_vars

----------------------------------------------------------------------------
(* The parsers on their own: one call of one parser on one input *)

\* inputs longer than MaxLen: URLs and signed integers
Samples ==
    {<<"a", ":", "/", "/", "a">>, <<"A", ":", "/", "/", "a">>,
     <<"a", ":", "/", "/", "a", ":", "1">>, <<"a", ":", "/", "/", "a", ":", "a">>,
     <<"a", ":", "/", "/", "a", "/", "a">>, <<"a", ":", "/", "/", "/", "a">>,
     <<"a", "1", ":", "/", "/", "a">>, <<"/", "/", "a", "/", "a">>,
     <<"-", "1", "2", "0">>, <<"+", "1", "2", "0">>, <<"1", "2", "a", "4">>}

Inputs == StringsUpTo(Chars, MaxLen) \cup Samples
EnumTags == StringsUpTo(EnumChars, MaxEnumLen)
\* the `separator` tags of the list fields: none, and ":"
Separators == {Empty, <<":">>}

ParserInit ==
    /\ nanInt \in NaNOutcomes
    /\ env = [k \in Keys |-> Empty]
    /\ target = "nil"
    /\ schema = <<>>
    /\ prior = <<>>
    /\ rec = <<>>
    /\ impl = "none"
    /\ pc = "idle"
    /\ i = 0
    /\ v = <<>>
    /\ result = NoResult
    /\ lookups = <<>>
    /\ raws = <<>>
    /\ first = NoRun
    /\ pfun = "none"
    /\ ps \in Inputs
    /\ pvals \in EnumTags \cup Separators
    /\ pout = Res(Empty, Nil)
    /\ rfun = "none"
    /\ rval = NoValue
    /\ rout = NoResult

\* a parser was applied to the input: its result is recorded
Called(name, out) ==
    /\ pfun = "none"
    /\ pfun' = name
    /\ pout' = out
    /\ UNCHANGED <<nanInt, env, ps, pvals>>
    /\ UNCHANGED engineVars
    /\ UNCHANGED renderVars

\* the parsers of one argument are called once per input string
CallAsNotEmpty == pvals = Empty /\ Called("asNotEmpty", asNotEmpty(ps))
CallAsInt == pvals = Empty /\ Called("asInt", asInt(ps))
CallAsNotEmptyInt == pvals = Empty /\ Called("asNotEmptyInt", asNotEmptyInt(ps))
CallAsURL == pvals = Empty /\ Called("asURL", asURL(ps))
CallAsNotEmptyURL == pvals = Empty /\ Called("asNotEmptyURL", asNotEmptyURL(ps))
CallAsEnum == Called("asEnum", asEnum(ps, pvals))
CallAsNotEmptyEnum == Called("asNotEmptyEnum", asNotEmptyEnum(ps, pvals))
\* the list parsers are called with each separator
CallAsStringSlice ==
    pvals \in Separators /\ Called("asStringSlice", asStringSlice(ps, pvals))
CallAsIntSlice == pvals \in Separators /\ Called("asIntSlice", asIntSlice(ps, pvals))

ParserNext ==
    CallAsNotEmpty \/ CallAsInt \/ CallAsNotEmptyInt \/ CallAsURL \/ CallAsNotEmptyURL
    \/ CallAsEnum \/ CallAsNotEmptyEnum \/ CallAsStringSlice \/ CallAsIntSlice

ParserSpec == ParserInit /\ [][ParserNext]_vars

----------------------------------------------------------------------------
(* The render harness: each String method applied to each value of its type, *)
(* and asInt applied to what the integer types rendered                       *)

IntSliceTypes == {"env.IntSlice", "env.NonEmptyIntSlice"}
StringSliceTypes == {"env.StringSlice", "env.NonEmptyStringSlice"}
ListInts == {IntOf(0 - 1), IntOf(0), IntOf(12)}
ListStrings == {Empty, <<"a">>, <<"b", ":">>}
ListsUpTo(elems, n) == {NilSlice} \cup {SliceOf(xs) : xs \in StringsUpTo(elems, n)}
IntListsUpTo(elems, n) ==
    {NilIntSlice} \cup {IntSliceOf(xs) : xs \in StringsUpTo(elems, n)}
Typed(typ, val) == [typ |-> typ, val |-> val]

RenderInputs ==
    {Typed(t, IntOf(n)) : t \in IntTypes, n \in (0 - MaxAbsInt)..MaxAbsInt}
    \cup {Typed(t, x) : t \in IntSliceTypes, x \in IntListsUpTo(ListInts, MaxListLen)}
    \cup {Typed(t, x) : t \in StringSliceTypes,
                        x \in ListsUpTo(ListStrings, MaxListLen)}

RenderInit ==
    /\ nanInt \in NaNOutcomes
    /\ env = [k \in Keys |-> Empty]
    /\ target = "nil"
    /\ schema = <<>>
    /\ prior = <<>>
    /\ rec = <<>>
    /\ impl = "none"
    /\ pc = "idle"
    /\ i = 0
    /\ v = <<>>
    /\ result = NoResult
    /\ lookups = <<>>
    /\ raws = <<>>
    /\ first = NoRun
    /\ pfun = "none"
    /\ pvals = Empty
    /\ pout = Res(Empty, Nil)
    /\ rfun = "none"
    /\ rout = NoResult
    /\ \/ rval \in RenderInputs /\ ps = Empty
       \/ rval = NoValue /\ ps \in Inputs

\* a String method was called on a value of its receiver type
Rendered(name, typ, out) ==
    /\ rfun = "none"
    /\ rval.typ = typ
    /\ rfun' = name
    /\ rout' = out
    /\ UNCHANGED <<nanInt, env, rval>>
    /\ UNCHANGED engineVars
    /\ UNCHANGED parserVars

\* src/types.go
IntStringV1 ==
    Rendered("types.go Int.String", "env.Int", StrVal(RuneString(rval.val.n)))
NonEmptyIntStringV1 ==
    Rendered("types.go NonEmptyInt.String", "env.NonEmptyInt",
             StrVal(RuneString(rval.val.n)))
\* src/unnamed/part_002
IntString == Rendered("Int.String", "env.Int", StrVal(Itoa(rval.val)))
NonEmptyIntString ==
    Rendered("NonEmptyInt.String", "env.NonEmptyInt", StrVal(Itoa(rval.val)))
StringSliceString ==
    Rendered("StringSlice.String", "env.StringSlice",
             StrVal(Join(rval.val.list, <<",">>)))
NonEmptyStringSliceString ==
    Rendered("NonEmptyStringSlice.String", "env.NonEmptyStringSlice",
             StrVal(Join(rval.val.list, <<",">>)))
IntSliceString ==
    Rendered("IntSlice.String", "env.IntSlice", Slice1(CommaItoa(rval.val.ints)))
NonEmptyIntSliceString ==
    Rendered("NonEmptyIntSlice.String", "env.NonEmptyIntSlice",
             Slice1(CommaItoa(rval.val.ints)))

\* asInt applied to the string an integer type rendered
ParseRendered ==
    /\ rfun # "none"
    /\ rval.typ \in IntTypes
    /\ pfun = "none"
    /\ pfun' = "asInt of String"
    /\ ps' = rout.str
    /\ pout' = asInt(rout.str)
    /\ UNCHANGED <<nanInt, env, pvals>>
    /\ UNCHANGED engineVars
    /\ UNCHANGED renderVars

RenderNext ==
    \/ IntStringV1 \/ NonEmptyIntStringV1 \/ IntString \/ NonEmptyIntString
    \/ StringSliceString \/ NonEmptyStringSliceString
    \/ IntSliceString \/ NonEmptyIntSliceString
    \/ ParseRendered \/ CallAsInt

RenderSpec == RenderInit /\ [][RenderNext]_vars

----------------------------------------------------------------------------
(* Properties *)

Done == pc = "done"
Failed == Done /\ result \notin {Nil, NoResult, Panic}
Succeeded == Done /\ result = Nil
OnRecord == target = "*struct"

\* the error field j ends the call with in part_000, Nil when the field is valid
FieldOutcome(j) ==
    LET f == schema[j]
        chk == FieldCheck(f, j)
    IN  IF chk # Nil THEN chk ELSE Dispatch(f, Candidate(f)).err

FailingFields == {j \in 1..Len(schema) : FieldOutcome(j) # Nil}
FirstFailing == CHOOSE j \in FailingFields : \A m \in FailingFields : j <= m

\* the env keys of fields 1..n, in declaration order
KeysUpTo(n) == [j \in 1..n |-> schema[j].env]

\* C1: Validate is all-or-nothing on the target. While a call runs the target
\* holds what it held before the call; the only step that changes the target
\* is the one that ends a call in which every field was parsed, and it replaces
\* the target by the scratch record whose every field is its parser's value; a
\* call that ends in an error leaves the target as it was before the call.
C1_AllOrNothing ==
    /\ [](~Done => rec = prior)
    /\ [](Done /\ result # Nil => rec = prior)
    /\ [](Succeeded =>
            /\ Len(raws) = Len(schema)
            /\ Len(rec) = Len(schema)
            /\ \A j \in 1..Len(schema) : rec[j] = Dispatch(schema[j], raws[j]).val)
    /\ [][rec' # rec =>
            /\ i > Len(schema)
            /\ rec' = v
            /\ result' = Nil
            /\ pc' = "done"]_vars

\* C1 witness: a call that parsed its first field to a value the target did not
\* hold, failed on a later field, and left the target as it was.
C1_Witness ==
    /\ Failed /\ OnRecord
    /\ i >= 2
    /\ v[1] # prior[1]
    /\ rec = prior

\* C2 as stated: the first failing field's error is returned and the lookups
\* are the source keys of the fields up to and including that field.
C2_Original ==
    Done /\ OnRecord /\ impl = "part_000" =>
        IF FailingFields = {}
        THEN result = Nil /\ lookups = KeysUpTo(Len(schema))
        ELSE /\ result = FieldOutcome(FirstFailing)
             /\ lookups = SelectSeq(KeysUpTo(FirstFailing), LAMBDA k : k # "")

\* C2 amended: fields are processed in declaration order and the first failing
\* field wins. The returned error is the error of the lowest-indexed failing
\* field; the lookups are the source keys of the fields before it, each once and
\* in declaration order, followed by its own key only if it failed after its
\* lookup (in its parser or on its type) and not if it failed the settable or
\* env-tag check, which come before the lookup; on success they are the keys of
\* all fields. No later field is ever looked up.
C2_FirstFailureWins ==
    /\ pc = "loop" /\ impl = "part_000" => lookups = KeysUpTo(i - 1)
    /\ Done /\ OnRecord /\ impl = "part_000" =>
        IF FailingFields = {}
        THEN result = Nil /\ lookups = KeysUpTo(Len(schema))
        ELSE LET m == FirstFailing
             IN  /\ result = FieldOutcome(m)
                 /\ lookups = IF FieldCheck(schema[m], m) = Nil
                              THEN KeysUpTo(m) ELSE KeysUpTo(m - 1)

\* C2 witness: a call that failed at its first field, in the parser, with a
\* second field declared behind it that would have failed as well.
C2_Witness ==
    /\ Failed /\ OnRecord /\ impl = "part_000"
    /\ Len(schema) = 2
    /\ FailingFields = {1, 2}
    /\ lookups = <<schema[1].env>>
    /\ schema[2].env # schema[1].env

\* C3: for every field that reached its lookup, the raw value handed to its
\* parser is the lookup's result when that is not empty; it is the declared
\* default when the lookup's result is empty and a default is declared; and it
\* is empty when the lookup's result is empty and no default is declared.
C3_Fallback ==
    impl = "part_000" =>
        \A j \in 1..Len(raws) :
            LET f == schema[j]
                looked == Lookup(f.env)
            IN  /\ looked # Empty => raws[j] = looked
                /\ looked = Empty /\ f.hasDefault => raws[j] = f.default
                /\ looked = Empty /\ ~f.hasDefault => raws[j] = Empty

\* C3 witness: a record with a defaulted field whose key is unset and a
\* defaulted field whose key is set to something other than the default.
C3_Witness ==
    /\ Succeeded /\ impl = "part_000"
    /\ Len(schema) = 2
    /\ schema[1].hasDefault /\ Lookup(schema[1].env) = Empty /\ raws[1] = DefaultTag
    /\ schema[2].hasDefault /\ ~schema[2].typ = schema[1].typ

\* C4: a Required parser is its plain parser behind an empty check. On the
\* empty string it fails with UnexpectedEmptyValue; on any other string its
\* value and its error are those of the plain parser (for Text, the string
\* itself and no error).
C4_RequiredIsPlainAfterEmptyCheck ==
    LET plain == CASE pfun = "asNotEmpty" -> Res(ps, Nil)
                   [] pfun = "asNotEmptyInt" -> asInt(ps)
                   [] pfun = "asNotEmptyURL" -> asURL(ps)
                   [] pfun = "asNotEmptyEnum" -> asEnum(ps, pvals)
    IN  pfun \in {"asNotEmpty", "asNotEmptyInt", "asNotEmptyURL", "asNotEmptyEnum"} =>
            IF ps = Empty
            THEN pout.err = Err("UnexpectedEmptyValue", <<>>)
            ELSE pout = plain

\* C4 witness: asNotEmptyInt rejected the empty string, which asInt accepts.
C4_Witness ==
    /\ pfun = "asNotEmptyInt"
    /\ ps = Empty
    /\ pout.err.kind = "UnexpectedEmptyValue"
    /\ asInt(ps).err = Nil

\* C5 as stated: on the empty string every plain parser returns its type's
\* zero value and no error: asInt the integer 0, asURL and asEnum "".
C5_PlainEmptyIsZero ==
    ps = Empty =>
        /\ pfun = "asInt" => pout = Res(IntOf(0), Nil)
        /\ pfun = "asURL" => pout = Res(Empty, Nil)
        /\ pfun = "asEnum" => pout = Res(Empty, Nil)

\* C6 as stated: a target that is not a non-null reference to a struct makes
\* Validate return an error (ExpectedPointerValue for a target that is no
\* reference, UnexpectedNilPointer for a null reference, ExpectedStructValue
\* for a reference to a non-struct), with no lookup and no write.
C6_PreconditionErrors ==
    Done /\ ~OnRecord =>
        /\ target = "nil" => result.kind \in {"ExpectedPointerValue", "UnexpectedNilPointer"}
        /\ target = "struct" => result.kind = "ExpectedPointerValue"
        /\ target = "nil *struct" => result.kind = "UnexpectedNilPointer"
        /\ target = "*int" => result.kind = "ExpectedStructValue"
        /\ lookups = <<>>
        /\ rec = prior

\* a field no engine can fail on: exported, tagged, of the Text kind
CannotFail(f) == f.exported /\ f.hasEnv /\ f.typ = "env.String"

\* C7 as stated, read at the first field the engine can fail on: a settable
\* field without an env tag, behind fields that cannot fail, makes Validate
\* fail with UntaggedField naming it, and lookup is not invoked on its behalf
\* (the lookups are those of the fields before it).
C7_UntaggedFieldFails ==
    Done /\ OnRecord =>
        \A j \in 1..Len(schema) :
            /\ schema[j].exported /\ ~schema[j].hasEnv
            /\ \A m \in 1..(j - 1) : CannotFail(schema[m])
            => /\ result = Err("UntaggedField", FieldName(j))
               /\ lookups = KeysUpTo(j - 1)

\* C8 as stated: a field that lacks the env tag and is not settable either makes
\* Validate fail with UntaggedField naming it.
C8_Original ==
    Failed /\ OnRecord /\ impl = "part_000" =>
        (~schema[i].hasEnv /\ ~schema[i].exported
            => result = Err("UntaggedField", FieldName(i)))

\* C8 amended: the per-field checks run in the order settable, then env tag
\* present, then lookup: a call that stops at a field that lacks the env tag and
\* is not settable either fails with UnsettableField naming the field, and
\* lookup is not invoked for it.
C8_SettableCheckedFirst ==
    Failed /\ OnRecord /\ impl = "part_000" =>
        (~schema[i].hasEnv /\ ~schema[i].exported
            => /\ result = Err("UnsettableField", FieldName(i))
               /\ Len(lookups) = i - 1)

\* C8 witness: a call that stopped at its second field, which has no env tag
\* and is unexported.
C8_Witness ==
    /\ Failed /\ OnRecord /\ impl = "part_000"
    /\ i = 2
    /\ ~schema[2].hasEnv /\ ~schema[2].exported
    /\ result.kind = "UnsettableField"

\* C9: a record with a tagged, settable field of a type the engine has no case
\* for never validates, and the field is never skipped: the call does not get
\* past it, and when the call reaches it (no earlier field failed) it fails
\* with UnknownFieldType naming the field's type, whatever the lookup returns.
C9_UnknownTypeFails ==
    Done /\ OnRecord =>
        \A j \in 1..Len(schema) :
            schema[j].typ \notin KnownTypes /\ schema[j].hasEnv /\ schema[j].exported
            => /\ result \notin {Nil, NoResult}
               /\ i <= j
               /\ i = j => result = Err("UnknownFieldType", <<schema[j].typ>>)

\* C9 witness: a call whose first field parsed a set key and whose second field
\* is of an unknown type; it failed there with UnknownFieldType.
C9_Witness ==
    /\ Failed /\ OnRecord
    /\ i = 2
    /\ schema[2].typ = UnknownType
    /\ Lookup(schema[2].env) # Empty
    /\ result.kind = "UnknownFieldType"

\* s is one of the comma-separated segments of vals: it has no comma and lies
\* in vals between two commas or ends
IsSegment(s, vals) ==
    /\ \A j \in 1..Len(s) : s[j] # ","
    /\ \E lo \in 1..(Len(vals) + 1) :
          LET hi == lo + Len(s) - 1
          IN  /\ hi <= Len(vals)
              /\ SubSeq(vals, lo, hi) = s
              /\ lo = 1 \/ vals[lo - 1] = ","
              /\ hi = Len(vals) \/ vals[hi + 1] = ","

\* C10 as stated: for every s, asEnum(s, vals) succeeds, returning s, exactly
\* when s is one of the comma-separated segments of vals; otherwise it fails
\* with InvalidEnumValue.
C10_Original ==
    pfun = "asEnum" =>
        IF IsSegment(ps, pvals)
        THEN pout = Res(ps, Nil)
        ELSE pout.err = Err("InvalidEnumValue", ps)

\* C10 amended: for every non-empty s, asEnum(s, vals) succeeds, returning s,
\* exactly when s equals, case-sensitively, one of the comma-separated segments
\* of vals, and fails with InvalidEnumValue otherwise; the empty s is accepted
\* (returning "") whatever vals is, also when vals has no empty segment.
C10_EnumMembership ==
    pfun = "asEnum" =>
        IF ps = Empty THEN pout = Res(Empty, Nil)
        ELSE IF IsSegment(ps, pvals) THEN pout = Res(ps, Nil)
        ELSE pout = Res(Empty, Err("InvalidEnumValue", ps))

\* C10 witness: asEnum rejected a value that differs from a member of the set
\* only in case.
C10_Witness ==
    /\ pfun = "asEnum"
    /\ ps # Empty
    /\ ~IsSegment(ps, pvals)
    /\ IsSegment(ToLower(ps), pvals)
    /\ pout.err.kind = "InvalidEnumValue"

\* the number of occurrences of the character c in s
Occurrences(s, c) == Cardinality({j \in 1..Len(s) : s[j] = c})

\* the strings of xs with the character c between them
RECURSIVE Joined(_, _)
Joined(xs, c) ==
    IF xs = <<>> THEN Empty
    ELSE IF Len(xs) = 1 THEN xs[1]
    ELSE xs[1] \o <<c>> \o Joined(Tail(xs), c)

\* s is a base-10 signed integer literal: an optional sign and decimal digits
IsIntegerLiteral(s) ==
    LET body == IF s # Empty /\ s[1] \in {"+", "-"} THEN Tail(s) ELSE s
    IN  body # Empty /\ \A j \in 1..Len(body) : body[j] \in Digits

\* C11: list parsing never drops segments. For a non-empty input with n
\* occurrences of the separator (a comma when none is declared) TextList
\* parsing yields, with no error, exactly n+1 segments, none holding the
\* separator, which joined by the separator are the input (so they are in input
\* order and empty segments are kept). IntegerList parsing of the same input
\* fails, returning the zero list, with the error of the first segment that is
\* empty (UnexpectedEmptyValue) or not an integer (InvalidInteger), and
\* otherwise yields n+1 integers. For the empty input both yield the empty,
\* non-nil list and no error.
C11_ListsKeepSegments ==
    LET c == SeparatorOrDefault(pvals)
        n == Occurrences(ps, c)
        xs == pout.val.list
        ns == pout.val.ints
        segs == asStringSlice(ps, pvals).val.list
        bad == {j \in 1..Len(segs) : ~IsIntegerLiteral(segs[j])}
        firstBad == CHOOSE j \in bad : \A m \in bad : j <= m
    IN  /\ pfun = "asStringSlice" /\ ps = Empty => pout = Res(SliceOf(<<>>), Nil)
        /\ pfun = "asIntSlice" /\ ps = Empty => pout = Res(IntSliceOf(<<>>), Nil)
        /\ pfun = "asStringSlice" /\ ps # Empty
            => /\ pout.err = Nil
               /\ ~pout.val.isNil
               /\ Len(xs) = n + 1
               /\ \A j \in 1..Len(xs) : Occurrences(xs[j], c) = 0
               /\ Joined(xs, c) = ps
        /\ pfun = "asIntSlice" /\ ps # Empty
            => IF bad = {}
               THEN /\ pout.err = Nil
                    /\ ~pout.val.isNil
                    /\ Len(ns) = n + 1
                    /\ \A j \in 1..Len(ns) : ns[j] = Atoi(segs[j]).val
               ELSE /\ pout.val = NilIntSlice
                    /\ pout.err = IF segs[firstBad] = Empty
                                  THEN Err("UnexpectedEmptyValue", <<>>)
                                  ELSE Err("InvalidInteger", segs[firstBad])

\* C11 witness: an input with two separators around an empty segment, which
\* TextList parsing kept as the second of three segments.
C11_Witness ==
    /\ pfun = "asStringSlice"
    /\ Len(ps) = 3
    /\ Len(pout.val.list) = 3
    /\ pout.val.list[2] = Empty
    /\ pout.val.list[1] # Empty
    /\ asIntSlice(ps, pvals).err.kind = "UnexpectedEmptyValue"

\* s is the decimal rendering of the integer n: a minus sign when n is
\* negative, then the digits of its magnitude with no leading zero
IsDecimalOf(s, n) ==
    LET body == IF n < 0 /\ s # Empty THEN Tail(s) ELSE s
        mag == IF n < 0 THEN 0 - n ELSE n
    IN  /\ body # Empty
        /\ n < 0 => s[1] = "-"
        /\ \A j \in 1..Len(body) : body[j] \in Digits
        /\ Len(body) > 1 => body[1] # "0"
        /\ (\A j \in 1..Len(body) : body[j] \in Digits) => DecimalValue(body) = mag

IntStringers ==
    {"types.go Int.String", "types.go NonEmptyInt.String",
     "Int.String", "NonEmptyInt.String"}

\* C12: integer render/parse round trip. For every integer n, Int(n).String()
\* and NonEmptyInt(n).String() are the decimal digits of n, and asInt of that
\* string returns n with no error; every non-empty input that is not a base-10
\* signed integer literal fails with InvalidInteger.
C12_IntRoundTrip ==
    /\ rfun \in IntStringers
        => rout # Panic /\ IsDecimalOf(rout.str, rval.val.n)
    /\ rfun \in IntStringers /\ pfun = "asInt of String"
        => pout.val = rval.val /\ pout.err = Nil
    /\ pfun \in {"asInt", "asInt of String"} /\ ps # Empty /\ ~IsIntegerLiteral(ps)
        => pout.err.kind = "InvalidInteger"

\* C13: every list value renders as its elements joined by commas. For every
\* StringSlice, NonEmptyStringSlice, IntSlice and NonEmptyIntSlice value, the
\* empty list included, String() returns the comma-joined elements (decimal
\* digits for integers), which is the empty string for the empty list.
C13_ListsRenderCommaJoined ==
    /\ rfun \in {"StringSlice.String", "NonEmptyStringSlice.String"}
        => rout = StrVal(Joined(rval.val.list, ","))
    /\ rfun \in {"IntSlice.String", "NonEmptyIntSlice.String"}
        => rout = StrVal(Joined([j \in 1..Len(rval.val.ints) |->
                                    Itoa(rval.val.ints[j])], ","))

\* C14: the outcome of Validate does not depend on what the target held before
\* the call. A second call with the same schema and lookup, whatever the record
\* holds when it begins, returns what the first returned and, on success,
\* leaves the record the first left; every field whose raw value is empty and
\* that has no default holds its kind's zero value after a successful call,
\* whatever the caller had pre-set; and a second call on the record as the
\* first left it leaves the record unchanged.
C14_PriorIndependent ==
    /\ Done /\ first # NoRun
        => /\ result = first.result
           /\ result = Nil => rec = first.rec
    /\ Succeeded /\ OnRecord
        => \A j \in 1..Len(schema) :
              Lookup(lookups[j]) = Empty /\ ~schema[j].hasDefault
                  => rec[j] = Zero(schema[j])
    /\ Done /\ first # NoRun /\ first.kept => rec = prior

====
